---- MODULE Spec2Model ----
(***************************************************************************)
(* go-postgres-s3-backup: BackupHandler.HandleRequest and the S3 bucket it *)
(* writes to (src/cmd/lambda/main.go, the second, checksum-aware copy of   *)
(* the handler, lines 314-783).                                            *)
(*                                                                         *)
(* Object keys are modelled as the byte strings they are: a key is a       *)
(* sequence of ASCII codes, so fmt.Sprintf, strings.Split,                 *)
(* strings.TrimSuffix, time.Format and time.Parse are modelled by what     *)
(* they do to the text.  An instant is a number of ticks, TicksPerDay      *)
(* ticks to the day, counted from midnight UTC of the Epoch date; tick     *)
(* d * TicksPerDay is 00:00:00 of day d.                                   *)
(***************************************************************************)
EXTENDS Integers, Sequences, FiniteSets, TLC

VARIABLES clock, store, run, started, elapsed, faults, putLog

vars == <<clock, store, run, started, elapsed, faults, putLog>>

(***************************************************************************)
(* Bounds of the model.                                                    *)
(***************************************************************************)
TicksPerDay == 2
MaxTicks == 1
MaxRuns == 2
MaxRunTicks == 1
MaxFaults == 1
NumDumps == 2

\* The slots the Lambda runtime runs invocations in.
Runs == {1, 2}

\* The normalised dump payloads pg_dump can produce.
Dumps == 1..NumDumps

(***************************************************************************)
(* Text.                                                                   *)
(***************************************************************************)
StrDaily == <<100, 97, 105, 108, 121>>
StrMonthly == <<109, 111, 110, 116, 104, 108, 121>>
StrYearly == <<121, 101, 97, 114, 108, 121>>
StrSub == <<115, 117, 98>>
StrLatest == <<108, 97, 116, 101, 115, 116>>
StrSlash == <<47>>
StrDash == <<45>>
StrBackupSuffix == <<45, 98, 97, 99, 107, 117, 112, 46, 115, 113, 108>>
StrSha256 == <<115, 104, 97, 50, 53, 54>>

IsDigit(c) == c >= 48 /\ c <= 57

DigitVal(c) == c - 48

HasPrefix(s, p) ==
    /\ Len(s) >= Len(p)
    /\ SubSeq(s, 1, Len(p)) = p

HasSuffix(s, p) ==
    /\ Len(s) >= Len(p)
    /\ SubSeq(s, Len(s) - Len(p) + 1, Len(s)) = p

TrimSuffix(s, p) ==
    IF HasSuffix(s, p) THEN SubSeq(s, 1, Len(s) - Len(p)) ELSE s

\* strings.Split(s, "/"): the pieces of s between the separators.
RECURSIVE SplitFrom(_, _, _)
SplitFrom(s, i, piece) ==
    IF i > Len(s) THEN <<piece>>
    ELSE IF s[i] = StrSlash[1] THEN <<piece>> \o SplitFrom(s, i + 1, <<>>)
    ELSE SplitFrom(s, i + 1, Append(piece, s[i]))

Split(s) == SplitFrom(s, 1, <<>>)

\* Byte-wise order of two strings (the order S3 lists keys in).
RECURSIVE LexLess(_, _)
LexLess(a, b) ==
    IF b = <<>> THEN FALSE
    ELSE IF a = <<>> THEN TRUE
    ELSE IF a[1] # b[1] THEN a[1] < b[1]
    ELSE LexLess(Tail(a), Tail(b))

\* n written in decimal with exactly w digits (the low w digits of n).
RECURSIVE Digits(_, _)
Digits(n, w) ==
    IF w = 0 THEN <<>> ELSE Append(Digits(n \div 10, w - 1), 48 + (n % 10))

RECURSIVE NumVal(_)
NumVal(s) ==
    IF s = <<>> THEN 0 ELSE 10 * NumVal(SubSeq(s, 1, Len(s) - 1)) + DigitVal(s[Len(s)])

AllDigits(s) == \A i \in 1..Len(s) : IsDigit(s[i])

(***************************************************************************)
(* Calendar (proleptic Gregorian, UTC).                                    *)
(***************************************************************************)
Epoch == <<2025, 8, 1>>

IsLeap(y) == (y % 4 = 0) /\ ((y % 100 # 0) \/ (y % 400 = 0))

DaysIn(y, m) ==
    IF m = 2 THEN (IF IsLeap(y) THEN 29 ELSE 28)
    ELSE IF m \in {4, 6, 9, 11} THEN 30 ELSE 31

\* The civil date n days after the first of month m of year y.
RECURSIVE CivilFrom(_, _, _)
CivilFrom(y, m, n) ==
    IF n < DaysIn(y, m) THEN <<y, m, n + 1>>
    ELSE IF m = 12 THEN CivilFrom(y + 1, 1, n - DaysIn(y, m))
    ELSE CivilFrom(y, m + 1, n - DaysIn(y, m))

DayOf(t) == t \div TicksPerDay

Civil(t) == CivilFrom(Epoch[1], Epoch[2], DayOf(t))

\* Days from the Epoch to the civil date <<y, m, d>> (on or after the Epoch).
RECURSIVE DaysBefore(_, _)
DaysBefore(y, m) ==
    IF y = Epoch[1] /\ m = Epoch[2] THEN 0
    ELSE IF m = 1 THEN DaysBefore(y - 1, 12) + DaysIn(y - 1, 12)
    ELSE DaysBefore(y, m - 1) + DaysIn(y, m - 1)

\* now.Format("2006"), now.Format("2006-01"), now.Format("2006-01-02")
FormatYear(t) == Digits(Civil(t)[1], 4)

FormatMonth(t) == Digits(Civil(t)[1], 4) \o StrDash \o Digits(Civil(t)[2], 2)

FormatDay(t) ==
    Digits(Civil(t)[1], 4) \o StrDash \o Digits(Civil(t)[2], 2)
        \o StrDash \o Digits(Civil(t)[3], 2)

\* time.Parse("2006-01-02", s): the instant of midnight UTC of the date, or
\* an error when s is not YYYY-MM-DD or names no day of the calendar.
ParseDate(s) ==
    IF /\ Len(s) = 10
       /\ s[5] = StrDash[1]
       /\ s[8] = StrDash[1]
       /\ AllDigits(SubSeq(s, 1, 4))
       /\ AllDigits(SubSeq(s, 6, 7))
       /\ AllDigits(SubSeq(s, 9, 10))
    THEN LET y == NumVal(SubSeq(s, 1, 4))
             m == NumVal(SubSeq(s, 6, 7))
             d == NumVal(SubSeq(s, 9, 10))
         IN  IF m >= 1 /\ m <= 12 /\ d >= 1 /\ d <= DaysIn(y, m)
             THEN [ok |-> TRUE, t |-> (DaysBefore(y, m) + d - 1) * TicksPerDay]
             ELSE [ok |-> FALSE, t |-> 0]
    ELSE [ok |-> FALSE, t |-> 0]

\* The instant of midnight UTC of a civil date on or after the Epoch.
Midnight(y, m, d) == (DaysBefore(y, m) + d - 1) * TicksPerDay

(***************************************************************************)
(* Keys.                                                                   *)
(***************************************************************************)
DailyPrefix == StrDaily \o StrSlash

DailyKey(t) == StrDaily \o StrSlash \o FormatDay(t) \o StrBackupSuffix

MonthlyKey(t) == StrMonthly \o StrSlash \o FormatMonth(t) \o StrBackupSuffix

YearlyKey(t) == StrYearly \o StrSlash \o FormatYear(t) \o StrBackupSuffix

(***************************************************************************)
(* The bucket: a function from keys to objects.  An object has a payload,  *)
(* user metadata (a set of <<name, value>> pairs) and the LastModified     *)
(* instant S3 tracks.                                                      *)
(***************************************************************************)
EmptyStore == [k \in {} |-> 0]

NoChecksum == <<"none", 0>>

\* The metadata key is never found (it is looked up under another name).
HasSha256_Never(meta) == FALSE

\* calculateChecksum: hex(sha256(data)); distinct payloads, distinct digests.
calculateChecksum(data) == <<"sha256", data>>

HasSha256(meta) == \E p \in meta : p[1] = StrSha256

Sha256Of(meta) == (CHOOSE p \in meta : p[1] = StrSha256)[2]

\* PutObject with Metadata {"sha256": checksum} at instant t.
PutObject(s, key, data, checksum, t) ==
    [k \in DOMAIN s \cup {key} |->
        IF k = key
        THEN [payload |-> data, meta |-> {<<StrSha256, checksum>>}, lm |-> t]
        ELSE s[k]]

\* The upload of the first copy of the handler, which sets no metadata.
uploadToS3_NoMetadata(s, key, data, checksum, t) ==
    [k \in DOMAIN s \cup {key} |->
        IF k = key THEN [payload |-> data, meta |-> {}, lm |-> t] ELSE s[k]]

uploadToS3WithChecksum(s, key, data, checksum, t) ==
    PutObject(s, key, data, checksum, t)

DeleteObject(s, key) == [k \in DOMAIN s \ {key} |-> s[k]]

\* The keys of a set in the order S3 lists them.
RECURSIVE SortKeys(_)
SortKeys(ks) ==
    IF ks = {} THEN <<>>
    ELSE LET first == CHOOSE k \in ks : \A o \in ks \ {k} : LexLess(k, o)
         IN  <<first>> \o SortKeys(ks \ {first})

\* ListObjectsV2 with a Prefix: resp.Contents.
ListObjects(s, prefix) ==
    LET ks == SortKeys({k \in DOMAIN s : HasPrefix(k, prefix)})
    IN  [i \in 1..Len(ks) |-> [key |-> ks[i], lm |-> s[ks[i]].lm]]

\* The scan of findMostRecentBackup over resp.Contents.
RECURSIVE MostRecentScan(_, _, _, _)
MostRecentScan(contents, i, found, mostRecent) ==
    IF i > Len(contents)
    THEN (IF found THEN mostRecent.key ELSE <<>>)
    ELSE IF ~found \/ contents[i].lm > mostRecent.lm
         THEN MostRecentScan(contents, i + 1, TRUE, contents[i])
         ELSE MostRecentScan(contents, i + 1, found, mostRecent)

\* The last key of the listing (the latest date in the key names) is taken.
findMostRecentBackup_LastKey(contents) ==
    IF Len(contents) = 0 THEN <<>> ELSE contents[Len(contents)].key

\* findMostRecentBackup, lines 612-628, on the contents of the listing.
findMostRecentBackup(contents) ==
    IF Len(contents) = 0 THEN <<>>
    ELSE MostRecentScan(contents, 1, FALSE, [key |-> <<>>, lm |-> 0])

\* The outcomes of an S3 call: "error" is a failed call (at most MaxFaults
\* calls fail), "notfound" the answer for a key that holds no object.
Faulty == IF faults < MaxFaults THEN {"error"} ELSE {}

CallOutcomes == {"ok"} \cup Faulty

\* What HeadObject and GetObject can answer for a key.
HeadOutcomes(s, key) ==
    (IF key \in DOMAIN s THEN {"ok"} ELSE {"notfound"}) \cup Faulty

Charge(res) == faults' = IF res = "error" THEN faults + 1 ELSE faults

\* Every answer of HeadObject but a failure is read as "absent".
objectExists_NeverFound(outcome) ==
    [exists |-> FALSE, err |-> outcome \notin {"ok", "notfound"}]

\* Every failed HeadObject counts as an error, "NotFound" included.
objectExists_NotFoundIsError(outcome) ==
    [exists |-> outcome = "ok", err |-> outcome # "ok"]

\* objectExists: the answer to a head outcome.
objectExists(outcome) ==
    [exists |-> outcome = "ok", err |-> outcome \notin {"ok", "notfound"}]

\* The flag is never cleared: every dump counts as changed.
ContentChanged_NeverCleared(mostRecentBackup, err, existingChecksum, newChecksum) ==
    TRUE

\* The comparison is inverted: a different checksum counts as unchanged.
ContentChanged_Inverted(mostRecentBackup, err, existingChecksum, newChecksum) ==
    ~(mostRecentBackup # <<>> /\ ~err /\ existingChecksum # newChecksum)

\* HandleRequest lines 440-447: the new dump differs from the last one unless
\* a most recent backup was found and its checksum was read and is equal.
ContentChanged(mostRecentBackup, err, existingChecksum, newChecksum) ==
    ~(mostRecentBackup # <<>> /\ ~err /\ existingChecksum = newChecksum)

RetentionDays == 7

\* The cutoff is taken from the date of now, not from the instant.
Cutoff_FromMidnight(now) ==
    (now \div TicksPerDay) * TicksPerDay - RetentionDays * TicksPerDay

\* time.Now().AddDate(0, 0, -7)
Cutoff(now) == now - RetentionDays * TicksPerDay

\* A date on the cutoff counts as before it.
Before_OrEqual(backupDate, cutoff) == backupDate <= cutoff

\* backupDate.Before(cutoff)
Before(backupDate, cutoff) == backupDate < cutoff

\* The number of parts is not checked: the date is read off the last part.
CleanupVerdict_NoPartsCheck(key, cutoff) ==
    LET parts == Split(key)
        backupDate == ParseDate(TrimSuffix(parts[Len(parts)], StrBackupSuffix))
    IN  IF ~backupDate.ok THEN "unparsed"
        ELSE IF Before(backupDate.t, cutoff) THEN "delete"
        ELSE "keep"

\* One pass of the loop of cleanupOldDailyBackups over a listed key.
CleanupVerdict(key, cutoff) ==
    LET parts == Split(key)
    IN  IF Len(parts) # 2 THEN "skip"
        ELSE LET backupDate == ParseDate(TrimSuffix(parts[2], StrBackupSuffix))
             IN  IF ~backupDate.ok THEN "unparsed"
                 ELSE IF Before(backupDate.t, cutoff) THEN "delete"
                 ELSE "keep"

(***************************************************************************)
(* One invocation of HandleRequest.  run[r].calls is the history of the    *)
(* S3 calls the invocation has made, each with its key and its outcome.    *)
(***************************************************************************)
IdleRun ==
    [pc |-> "idle", data |-> 0, now |-> 0, newChecksum |-> NoChecksum,
     mostRecent |-> <<>>, contentChanged |-> TRUE, listing |-> <<>>, idx |-> 0,
     cutoff |-> 0, sweepAt |-> 0, calls |-> <<>>, result |-> "none",
     startClock |-> 0, store0 |-> EmptyStore, seq |-> 0]

Call(op, key, res) == [op |-> op, key |-> key, res |-> res]

Active(r) == run[r].pc \notin {"idle", "done"}

\* The step after the dedup decision (lines 449-460): upload, or return nil.
AfterDedup(contentChanged) == IF contentChanged THEN "daily" ELSE "done"

\* The answer of the existence check is ignored.
AfterMonthlyCheck_IgnoreExists(exists, err) ==
    IF err THEN "failed" ELSE "monthlyPut"

\* The step after objectExists on the monthly key (lines 466-473).
AfterMonthlyCheck(exists, err) ==
    IF err THEN "failed" ELSE IF ~exists THEN "monthlyPut" ELSE "yearlyCheck"

\* The handler returns after the yearly step without the cleanup.
AfterYearlyCheck_NoCleanup(exists, err) ==
    IF err THEN "failed" ELSE IF ~exists THEN "yearlyPut" ELSE "done"

\* The step after objectExists on the yearly key (lines 477-484).
AfterYearlyCheck(exists, err) ==
    IF err THEN "failed" ELSE IF ~exists THEN "yearlyPut" ELSE "cleanup"

\* A failed upload is only logged.
AfterUpload_ErrorIgnored(err, next) == next

\* The step after an upload (lines 452-454, 469-471, 480-482).
AfterUpload(err, next) == IF err THEN "failed" ELSE next

\* return fmt.Errorf(...) / return nil
Finish(rec, pc) ==
    IF pc = "failed" THEN [rec EXCEPT !.pc = "done", !.result = "error"]
    ELSE IF pc = "done" THEN [rec EXCEPT !.pc = "done", !.result = "ok"]
    ELSE [rec EXCEPT !.pc = pc]

\* Lines 419-431: createBackup, time.Now(), calculateChecksum.  seq numbers
\* the invocations.
Begin(r) ==
    /\ run[r].pc = "idle"
    /\ started < MaxRuns
    /\ started' = started + 1
    /\ \/ /\ faults < MaxFaults
          /\ faults' = faults + 1
          /\ run' = [run EXCEPT ![r] =
                       [IdleRun EXCEPT !.pc = "done", !.result = "error",
                                       !.startClock = clock, !.store0 = store,
                                       !.seq = started + 1]]
       \/ /\ faults' = faults
          /\ \E data \in Dumps :
               run' = [run EXCEPT ![r] =
                         [IdleRun EXCEPT !.pc = "find", !.data = data,
                                         !.now = clock,
                                         !.newChecksum = calculateChecksum(data),
                                         !.startClock = clock, !.store0 = store,
                                         !.seq = started + 1]]
    /\ UNCHANGED <<clock, store, elapsed, putLog>>

\* The daily schedule (one invocation a day, each far shorter than a day):
\* an invocation starts when no other one is executing.
\* The runtime hands it the lowest free slot.
Start(r) ==
    /\ \A o \in Runs : run[o].pc = "idle"
    /\ \A o \in Runs : o < r => run[o].pc # "idle"
    /\ Begin(r)

\* Nothing in the handler or in the bucket fences invocations (a retry, a
\* manual invoke during the scheduled one): an invocation starts at any
\* time, in the lowest free slot.
StartConcurrent(r) ==
    /\ \A o \in Runs : o < r => run[o].pc # "idle"
    /\ Begin(r)

\* Lines 434-437 and 441: findMostRecentBackup(ctx, "daily/").
FindMostRecent(r) ==
    /\ run[r].pc = "find"
    /\ \E res \in CallOutcomes :
         LET key == IF res = "ok"
                    THEN findMostRecentBackup(ListObjects(store, DailyPrefix))
                    ELSE <<>>
             rec == [run[r] EXCEPT
                        !.mostRecent = key,
                        !.calls = Append(@, Call("list", DailyPrefix, res))]
         IN  /\ run' = [run EXCEPT ![r] =
                          IF key # <<>> THEN [rec EXCEPT !.pc = "head"]
                          ELSE Finish(rec, AfterDedup(
                                   ContentChanged(key, FALSE, NoChecksum,
                                                  rec.newChecksum)))]
             /\ Charge(res)
    /\ UNCHANGED <<clock, store, started, elapsed, putLog>>

Decide(rec, err, existingChecksum) ==
    LET changed == ContentChanged(rec.mostRecent, err, existingChecksum,
                                  rec.newChecksum)
    IN  Finish([rec EXCEPT !.contentChanged = changed], AfterDedup(changed))

\* getObjectChecksum lines 638-651: HeadObject and the sha256 metadata.
HeadChecksum(r) ==
    /\ run[r].pc = "head"
    /\ \E res \in HeadOutcomes(store, run[r].mostRecent) :
         LET key == run[r].mostRecent
             rec == [run[r] EXCEPT !.calls = Append(@, Call("head", key, res))]
         IN  /\ run' = [run EXCEPT ![r] =
                          IF res # "ok" THEN Decide(rec, TRUE, NoChecksum)
                          ELSE IF HasSha256(store[key].meta)
                               THEN Decide(rec, FALSE, Sha256Of(store[key].meta))
                               ELSE [rec EXCEPT !.pc = "get"]]
             /\ Charge(res)
    /\ UNCHANGED <<clock, store, started, elapsed, putLog>>

\* getObjectChecksum lines 655-669: GetObject and the digest of the body.
GetChecksum(r) ==
    /\ run[r].pc = "get"
    /\ \E res \in HeadOutcomes(store, run[r].mostRecent) :
         LET key == run[r].mostRecent
             rec == [run[r] EXCEPT !.calls = Append(@, Call("get", key, res))]
         IN  /\ run' = [run EXCEPT ![r] =
                          IF res # "ok" THEN Decide(rec, TRUE, NoChecksum)
                          ELSE Decide(rec, FALSE,
                                      calculateChecksum(store[key].payload))]
             /\ Charge(res)
    /\ UNCHANGED <<clock, store, started, elapsed, putLog>>

\* An upload of the dump to key by run r: PutObject succeeds or fails.
Upload(r, key, next) ==
    \E res \in CallOutcomes :
        LET rec == [run[r] EXCEPT !.calls = Append(@, Call("put", key, res))]
        IN  /\ run' = [run EXCEPT ![r] =
                         Finish(rec, AfterUpload(res # "ok", next))]
            /\ store' = IF res = "ok"
                        THEN uploadToS3WithChecksum(store, key, rec.data,
                                                    rec.newChecksum, clock)
                        ELSE store
            /\ putLog' = IF res = "ok"
                         THEN Append(putLog,
                                     [key |-> key, run |-> rec.seq,
                                      existed |-> key \in DOMAIN store,
                                      during |-> {run[o].seq : o \in
                                                    {a \in Runs : Active(a)}}])
                         ELSE putLog
            /\ Charge(res)

\* Lines 450-455.
UploadDaily(r) ==
    /\ run[r].pc = "daily"
    /\ Upload(r, DailyKey(run[r].now), "monthlyCheck")
    /\ UNCHANGED <<clock, started, elapsed>>

\* An existence check of key by run r.
Check(r, key, after(_, _)) ==
    \E res \in HeadOutcomes(store, key) :
        LET ans == objectExists(res)
            rec == [run[r] EXCEPT !.calls = Append(@, Call("head", key, res))]
        IN  /\ run' = [run EXCEPT ![r] = Finish(rec, after(ans.exists, ans.err))]
            /\ Charge(res)

\* Line 466.
CheckMonthly(r) ==
    /\ run[r].pc = "monthlyCheck"
    /\ Check(r, MonthlyKey(run[r].now), AfterMonthlyCheck)
    /\ UNCHANGED <<clock, store, started, elapsed, putLog>>

\* Lines 469-472.
UploadMonthly(r) ==
    /\ run[r].pc = "monthlyPut"
    /\ Upload(r, MonthlyKey(run[r].now), "yearlyCheck")
    /\ UNCHANGED <<clock, started, elapsed>>

\* Line 477.
CheckYearly(r) ==
    /\ run[r].pc = "yearlyCheck"
    /\ Check(r, YearlyKey(run[r].now), AfterYearlyCheck)
    /\ UNCHANGED <<clock, store, started, elapsed, putLog>>

\* Lines 480-483.
UploadYearly(r) ==
    /\ run[r].pc = "yearlyPut"
    /\ Upload(r, YearlyKey(run[r].now), "cleanup")
    /\ UNCHANGED <<clock, started, elapsed>>

\* cleanupOldDailyBackups lines 733-742: the listing and the cutoff.  A
\* failed listing is logged by HandleRequest (lines 488-490), which returns nil.
CleanupList(r) ==
    /\ run[r].pc = "cleanup"
    /\ \E res \in CallOutcomes :
         LET rec == [run[r] EXCEPT
                        !.calls = Append(@, Call("list", DailyPrefix, res))]
         IN  /\ run' = [run EXCEPT ![r] =
                          IF res = "ok"
                          THEN [rec EXCEPT
                                   !.pc = "sweep",
                                   !.listing = ListObjects(store, DailyPrefix),
                                   !.idx = 1,
                                   !.sweepAt = clock,
                                   !.cutoff = Cutoff(clock)]
                          ELSE Finish(rec, "done")]
             /\ Charge(res)
    /\ UNCHANGED <<clock, store, started, elapsed, putLog>>

\* A failed DeleteObject ends the loop.
SweepNext_StopOnError(idx, err, len) == IF err THEN len + 1 ELSE idx + 1

\* Lines 760-768: a failed DeleteObject is logged and the loop goes on with
\* the next listed object.
SweepNext(idx, err, len) == idx + 1

\* cleanupOldDailyBackups lines 745-770: one pass of the loop.
CleanupStep(r) ==
    /\ run[r].pc = "sweep"
    /\ run[r].idx <= Len(run[r].listing)
    /\ LET key == run[r].listing[run[r].idx].key
           next == [run[r] EXCEPT !.idx = @ + 1]
       IN  IF CleanupVerdict(key, run[r].cutoff) = "delete"
           THEN \E res \in CallOutcomes :
                  /\ run' = [run EXCEPT ![r] =
                               [run[r] EXCEPT
                                  !.idx = SweepNext(@, res # "ok",
                                                    Len(run[r].listing)),
                                  !.calls = Append(@, Call("delete", key, res))]]
                  /\ store' = IF res = "ok" THEN DeleteObject(store, key)
                              ELSE store
                  /\ Charge(res)
           ELSE /\ run' = [run EXCEPT ![r] = next]
                /\ store' = store
                /\ faults' = faults
    /\ UNCHANGED <<clock, started, elapsed, putLog>>

\* Lines 772 and 492-493: the loop is over, HandleRequest returns nil.
CleanupDone(r) ==
    /\ run[r].pc = "sweep"
    /\ run[r].idx > Len(run[r].listing)
    /\ run' = [run EXCEPT ![r] = Finish(run[r], "done")]
    /\ UNCHANGED <<clock, store, started, elapsed, faults, putLog>>

\* The invocation has returned; the Lambda runtime is free for the next one.
Return(r) ==
    /\ run[r].pc = "done"
    /\ run' = [run EXCEPT ![r] = IdleRun]
    /\ UNCHANGED <<clock, store, started, elapsed, faults, putLog>>

\* The steps that read the clock: the uploads (S3 stamps LastModified) and
\* the cutoff of the sweep; Start reads it too (time.Now() at line 425).
ReadsClock(r) == run[r].pc \in {"daily", "monthlyPut", "yearlyPut", "cleanup"}

\* Time passes.  An invocation lasts at most MaxRunTicks ticks (the Lambda
\* timeout is far below a day).  A tick between two steps that do not read
\* the clock leads to the same states as the tick right before the next step
\* that reads it, so time is let pass only there.
TimePasses ==
    /\ elapsed < MaxTicks
    /\ \A r \in Runs : Active(r) => clock + 1 - run[r].startClock <= MaxRunTicks
    /\ clock' = clock + 1
    /\ elapsed' = elapsed + 1
    /\ UNCHANGED <<store, run, started, faults, putLog>>

Tick ==
    /\ (\A r \in Runs : run[r].pc = "idle") \/ (\E r \in Runs : ReadsClock(r))
    /\ TimePasses

\* With unfenced invocations a start (which reads the clock) may come next
\* whenever a slot is free.
TickConcurrent ==
    /\ \/ \E r \in Runs : run[r].pc = "idle" /\ started < MaxRuns
       \/ \E r \in Runs : ReadsClock(r)
    /\ TimePasses

\* The steps of an invocation that has started.
Proceed(r) ==
    \/ FindMostRecent(r)
    \/ HeadChecksum(r)
    \/ GetChecksum(r)
    \/ UploadDaily(r)
    \/ CheckMonthly(r)
    \/ UploadMonthly(r)
    \/ CheckYearly(r)
    \/ UploadYearly(r)
    \/ CleanupList(r)
    \/ CleanupStep(r)
    \/ CleanupDone(r)
    \/ Return(r)

Step(r) == Start(r) \/ Proceed(r)

Next == Tick \/ \E r \in Runs : Step(r)

StepConcurrent(r) == StartConcurrent(r) \/ Proceed(r)

NextConcurrent == TickConcurrent \/ \E r \in Runs : StepConcurrent(r)

(***************************************************************************)
(* Initial states: the bucket as earlier invocations, the first copy of    *)
(* the handler (uploadToS3, no metadata) and the bucket's owner left it.   *)
(***************************************************************************)
Seed(key, payload, withMeta, lm) ==
    [key |-> key, payload |-> payload,
     meta |-> IF withMeta THEN {<<StrSha256, calculateChecksum(payload)>>} ELSE {},
     lm |-> lm]

StoreOf(seeds) ==
    [k \in {o.key : o \in seeds} |->
        LET o == CHOOSE x \in seeds : x.key = k
        IN  [payload |-> o.payload, meta |-> o.meta, lm |-> o.lm]]

DaysAgo(t, n) == t - n * TicksPerDay

StartInstants == {Midnight(2025, 8, 31) + 1, Midnight(2025, 12, 31) + 1}

\* Objects under daily/ that are no daily backup of the handler: a name that
\* is no date, a nested key, a dated name without the suffix, and a date that
\* is not in the calendar.
Strays(t) ==
    {Seed(DailyPrefix \o StrLatest, 2, TRUE, DaysAgo(t, 9)),
     Seed(DailyPrefix \o StrSub \o StrSlash \o FormatDay(DaysAgo(t, 9))
              \o StrBackupSuffix, 1, TRUE, DaysAgo(t, 9)),
     Seed(DailyPrefix \o FormatDay(DaysAgo(t, 10)), 1, FALSE, DaysAgo(t, 10)),
     Seed(DailyPrefix \o Digits(Civil(t)[1], 4) \o StrDash \o Digits(2, 2)
              \o StrDash \o Digits(30, 2) \o StrBackupSuffix,
          2, TRUE, DaysAgo(t, 9))}

Monthly(t) == Seed(MonthlyKey(t), 1, TRUE, DaysAgo(t, 1))

Yearly(t) == Seed(YearlyKey(t), 2, TRUE, DaysAgo(t, 9))

\* The buckets an invocation at instant t may find: empty; yesterday's backup
\* with the period's checkpoints; a backup of the first copy of the handler
\* (no metadata) in a month without checkpoint; a week of backups and strays,
\* the backup of six days ago being the object put last (it was copied back
\* into the bucket one tick ago).
InitStores(t) ==
    { {},
      {Seed(DailyKey(DaysAgo(t, 1)), 1, TRUE, DaysAgo(t, 1)),
       Monthly(t), Yearly(t)},
      {Seed(DailyKey(DaysAgo(t, 1)), 1, FALSE, DaysAgo(t, 1)), Yearly(t)},
      {Seed(DailyKey(DaysAgo(t, 8)), 1, FALSE, DaysAgo(t, 8)),
       Seed(DailyKey(DaysAgo(t, 7)), 2, TRUE, DaysAgo(t, 7)),
       Seed(DailyKey(DaysAgo(t, 6)), 1, TRUE, t - 1),
       Seed(DailyKey(DaysAgo(t, 1)), 1, TRUE, DaysAgo(t, 1)),
       Monthly(t), Yearly(t)} \cup Strays(t) }

InitRest ==
    /\ run = [r \in Runs |-> IdleRun]
    /\ started = 0
    /\ elapsed = 0
    /\ faults = 0
    /\ putLog = <<>>

Init ==
    /\ clock \in StartInstants
    /\ \E seeds \in InitStores(clock) : store = StoreOf(seeds)
    /\ InitRest

Spec == Init /\ [][Next]_vars

\* The bucket holds the daily backups of 2025-08-01 through 2025-08-10 (the
\* latest one written by the first copy of the handler, without metadata) and
\* one invocation runs on 2025-08-10, at midnight or later in the day.
InitScenario ==
    /\ clock \in {Midnight(2025, 8, 10), Midnight(2025, 8, 10) + 1}
    /\ \E p \in SUBSET {Monthly(clock), Yearly(clock)} :
         store = StoreOf({Seed(DailyKey(Midnight(2025, 8, d)), 1 + (d % 2),
                               d % 3 # 1, Midnight(2025, 8, d)) : d \in 1..10}
                         \cup p)
    /\ run = [r \in Runs |-> IdleRun]
    /\ started = MaxRuns - 1
    /\ elapsed = 0
    /\ faults = 0
    /\ putLog = <<>>

SpecScenario == InitScenario /\ [][Next]_vars

\* Two unfenced invocations, none of whose S3 calls fails, with at most one
\* tick of the clock between their steps, on a bucket that holds yesterday's
\* backup (of the first copy of the handler) and no checkpoint of the month
\* or of the year.
InitConcurrent ==
    /\ clock \in StartInstants
    /\ store = StoreOf({Seed(DailyKey(DaysAgo(clock, 1)), 1, FALSE,
                             DaysAgo(clock, 1))})
    /\ run = [r \in Runs |-> IdleRun]
    /\ started = MaxRuns - 2
    /\ elapsed = MaxTicks - 1
    /\ faults = MaxFaults
    /\ putLog = <<>>

SpecConcurrent == InitConcurrent /\ [][NextConcurrent]_vars

(***************************************************************************)
(* Vocabulary of the properties.                                           *)
(***************************************************************************)
Done(r) == run[r].pc = "done"

\* The invocation got a dump from pg_dump (it is past fingerprinting).
Dumped(r) == run[r].data \in Dumps

Succeeded(r) == Done(r) /\ run[r].result = "ok"

Failed(r) == Done(r) /\ run[r].result = "error"

\* The invocation returned at line 459: content unchanged, nothing uploaded.
Skipped(r) == Succeeded(r) /\ ~run[r].contentChanged

\* The invocation returned nil at line 493, after the uploads.
Written(r) == Succeeded(r) /\ run[r].contentChanged

CallIdx(r) == DOMAIN run[r].calls

CallAt(r, i) == run[r].calls[i]

PutCalls(r) == {i \in CallIdx(r) : CallAt(r, i).op = "put"}

DeleteCalls(r) == {i \in CallIdx(r) : CallAt(r, i).op = "delete"}

\* The listing of cleanupOldDailyBackups: a list call that is not the first call.
SweepListCalls(r) == {i \in CallIdx(r) : i > 1 /\ CallAt(r, i).op = "list"}

\* A lookup of the dedup step (a call before any upload) failed.
DedupFault(r) ==
    \E i \in CallIdx(r) :
        /\ CallAt(r, i).res # "ok"
        /\ \A j \in 1..i : CallAt(r, j).op \in {"list", "head", "get"}
        /\ i <= 3

IsDaily(k) == HasPrefix(k, DailyPrefix)

IsPeriodic(k) ==
    HasPrefix(k, StrMonthly \o StrSlash) \/ HasPrefix(k, StrYearly \o StrSlash)

\* The objects under daily/ no other object under daily/ is more recent than.
LatestDaily(s) ==
    {k \in DOMAIN s :
        /\ IsDaily(k)
        /\ \A o \in DOMAIN s : IsDaily(o) => s[o].lm <= s[k].lm}

\* The fingerprint of a stored object: its sha256 metadata, or the digest of
\* its payload when it carries none.
Fingerprint(o) ==
    IF \E p \in o.meta : p[1] = StrSha256
    THEN (CHOOSE p \in o.meta : p[1] = StrSha256)[2]
    ELSE <<"sha256", o.payload>>

(***************************************************************************)
(* C1.  Whenever the most recently modified object under daily/ has the    *)
(* fingerprint of the new dump (and the lookups that read it did not       *)
(* fail), the invocation is skipped and makes no put call at all, to the   *)
(* daily, the monthly or the yearly key, and the bucket is left as found.  *)
(***************************************************************************)
C1_EqualFingerprint(r) ==
    /\ Done(r)
    /\ Dumped(r)
    /\ ~DedupFault(r)
    /\ LatestDaily(run[r].store0) # {}
    /\ \A k \in LatestDaily(run[r].store0) :
           Fingerprint(run[r].store0[k]) = <<"sha256", run[r].data>>

C2_SkipOnlyWhenEqual ==
    \A r \in Runs :
        /\ Skipped(r) =>
              /\ run[r].mostRecent \in LatestDaily(run[r].store0)
              /\ ~DedupFault(r)
              /\ Fingerprint(run[r].store0[run[r].mostRecent])
                     = <<"sha256", run[r].data>>
        /\ (Done(r) /\ Dumped(r) /\ ~Skipped(r)) =>
              \E i \in PutCalls(r) :
                  /\ CallAt(r, i).key = DailyKey(run[r].now)
                  /\ \A j \in 1..(i - 1) : CallAt(r, j).op \in {"list", "head", "get"}

\* The metadata read failed although the most recent backup equals the dump:
\* the invocation goes on to the uploads.
C2_Witness ==
    \E r \in Runs :
        /\ Done(r) /\ Dumped(r) /\ ~Skipped(r)
        /\ DedupFault(r)
        /\ LatestDaily(run[r].store0) # {}
        /\ \A k \in LatestDaily(run[r].store0) :
               Fingerprint(run[r].store0[k]) = <<"sha256", run[r].data>>

(***************************************************************************)
(* C3.  Over any sequence of non-overlapping invocations every monthly/    *)
(* and yearly/ key is written at most once: it is put only right after an  *)
(* existence check that found no object there, never when an object is     *)
(* stored at the key, and never a second time.                             *)
(***************************************************************************)
C3_PeriodicWrittenOnce ==
    /\ \A i \in DOMAIN putLog :
           IsPeriodic(putLog[i].key) =>
               /\ ~putLog[i].existed
               /\ \A j \in DOMAIN putLog : putLog[j].key = putLog[i].key => j = i
    /\ \A r \in Runs : \A i \in PutCalls(r) :
           IsPeriodic(CallAt(r, i).key) =>
               /\ i > 1
               /\ CallAt(r, i - 1) = Call("head", CallAt(r, i).key, "notfound")

\* A second invocation with changed content in a month whose checkpoint the
\* first invocation wrote.
C3_Witness ==
    \E r \in Runs :
        /\ Written(r)
        /\ MonthlyKey(run[r].now) \in DOMAIN run[r].store0
        /\ run[r].data # run[r].store0[MonthlyKey(run[r].now)].payload
        /\ \E i \in DOMAIN putLog :
               /\ putLog[i].key = MonthlyKey(run[r].now)
               /\ putLog[i].run < started

(***************************************************************************)
(* C4.  In every invocation that is not skipped and returns success the    *)
(* daily key of the invocation's date is put, whatever is stored there,    *)
(* with the dump as payload and its digest as the sha256 metadata, and the *)
(* object is still there when the invocation ends.                         *)
(***************************************************************************)
C4_DailyWritten ==
    \A r \in Runs :
        Written(r) =>
            LET key == StrDaily \o StrSlash \o FormatDay(run[r].now)
                           \o StrBackupSuffix
            IN  /\ \E i \in PutCalls(r) : CallAt(r, i) = Call("put", key, "ok")
                /\ key \in DOMAIN store
                /\ store[key].payload = run[r].data
                /\ store[key].meta = {<<StrSha256, <<"sha256", run[r].data>>>>}

\* The daily key held another payload before, and the sweep deleted objects.
C4_Witness ==
    \E r \in Runs :
        /\ Written(r)
        /\ DailyKey(run[r].now) \in DOMAIN run[r].store0
        /\ run[r].store0[DailyKey(run[r].now)].payload # run[r].data
        /\ DeleteCalls(r) # {}

(***************************************************************************)
(* C5.  When cleanupOldDailyBackups has run and every delete call          *)
(* succeeded, the objects it deleted are exactly the listed objects whose  *)
(* key has one "/" and a name that parses as a date strictly before the    *)
(* instant of the sweep minus 7 days; every other listed object is kept.   *)
(***************************************************************************)
SweepFinished(r) == Done(r) /\ \E i \in SweepListCalls(r) : CallAt(r, i).res = "ok"

ListedKeys(r) == {run[r].listing[i].key : i \in DOMAIN run[r].listing}

DeletedKeys(r) ==
    {CallAt(r, i).key : i \in {j \in DeleteCalls(r) : CallAt(r, j).res = "ok"}}

Stale(key, now) ==
    LET parts == Split(key)
    IN  /\ Len(parts) = 2
        /\ LET date == ParseDate(TrimSuffix(parts[2], StrBackupSuffix))
           IN  date.ok /\ date.t < now - 7 * TicksPerDay

\* C5: with every delete succeeding, the sweep deletes exactly the stale
\* listed objects.
C5_SweepDeletesExactlyStale ==
    \A r \in Runs :
        (SweepFinished(r) /\ \A i \in DeleteCalls(r) : CallAt(r, i).res = "ok") =>
            /\ DeletedKeys(r) = {k \in ListedKeys(r) : Stale(k, run[r].sweepAt)}
            /\ \A k \in ListedKeys(r) :
                   k \in DOMAIN store <=> ~Stale(k, run[r].sweepAt)

\* A sweep over objects of mixed ages: some deleted, one exactly 7 days old
\* by its date and kept, and strays.
C5_Witness ==
    \E r \in Runs :
        /\ SweepFinished(r)
        /\ \A i \in DeleteCalls(r) : CallAt(r, i).res = "ok"
        /\ Cardinality(DeletedKeys(r)) >= 2
        /\ DailyKey(run[r].sweepAt - 7 * TicksPerDay) \in ListedKeys(r) \ DeletedKeys(r)
        /\ DailyPrefix \o StrLatest \in ListedKeys(r)

(***************************************************************************)
(* C6.  The bucket holds daily/2025-08-01 .. daily/2025-08-10 and the      *)
(* sweep runs on 2025-08-10.  As claimed: it deletes the objects of        *)
(* 2025-08-01 and 2025-08-02 and no others, at whatever time of that day.  *)
(***************************************************************************)
Aug(d) == DailyKey(Midnight(2025, 8, d))

SweptOnAug10(r) ==
    /\ SweepFinished(r)
    /\ \A i \in DeleteCalls(r) : CallAt(r, i).res = "ok"
    /\ Civil(run[r].sweepAt) = <<2025, 8, 10>>

\* C6 as claimed: only 2025-08-01 and 2025-08-02 are deleted.
C6_Claimed_DeletesTwo ==
    \A r \in Runs : SweptOnAug10(r) => DeletedKeys(r) = {Aug(1), Aug(2)}

\* C6 as amended.  A sweep at 00:00:00 of 2025-08-10 deletes the objects of
\* 2025-08-01 and 2025-08-02 only; a sweep later that day deletes the object
\* of 2025-08-03 as well; 2025-08-04 .. 2025-08-10 are kept at any time.
C6_DeletesThreeAfterMidnight ==
    \A r \in Runs :
        SweptOnAug10(r) =>
            /\ run[r].sweepAt = Midnight(2025, 8, 10)
                   => DeletedKeys(r) = {Aug(1), Aug(2)}
            /\ run[r].sweepAt > Midnight(2025, 8, 10)
                   => DeletedKeys(r) = {Aug(1), Aug(2), Aug(3)}
            /\ \A d \in 4..10 : Aug(d) \in DOMAIN store

C6_Witness ==
    \E r \in Runs :
        /\ SweptOnAug10(r)
        /\ run[r].sweepAt > Midnight(2025, 8, 10)
        /\ Aug(3) \in DOMAIN run[r].store0
        /\ Aug(3) \notin DOMAIN store

(***************************************************************************)
(* C7.  As claimed: every invocation that gets past fingerprinting and     *)
(* returns success has reached the sweep, on the skipped branch too.       *)
(***************************************************************************)
SweepReached(r) == SweepListCalls(r) # {}

PeriodicPutFailed(r, i) ==
    /\ i \in PutCalls(r)
    /\ IsPeriodic(CallAt(r, i).key)
    /\ CallAt(r, i).res = "error"

\* C8 as claimed: the invocation succeeds after a failed monthly/yearly put.
C8_Claimed_PutFailureNotFatal ==
    \A r \in Runs :
        (Done(r) /\ \E i \in CallIdx(r) : PeriodicPutFailed(r, i)) => Succeeded(r)

\* C8 as amended.  A failed put of the monthly or of the yearly key is fatal:
\* the invocation returns an error at once, it makes no further call (no
\* yearly check after a monthly failure, no sweep), and the daily object it
\* wrote stays.
C8_PutFailureFatal ==
    \A r \in Runs : \A i \in CallIdx(r) :
        PeriodicPutFailed(r, i) =>
            /\ Failed(r)
            /\ i = Len(run[r].calls)
            /\ DailyKey(run[r].now) \in DOMAIN store
            /\ store[DailyKey(run[r].now)].payload = run[r].data

\* The monthly put failed in a year that has no yearly checkpoint.
C8_Witness ==
    \E r \in Runs :
        /\ PeriodicPutFailed(r, Len(run[r].calls))
        /\ CallAt(r, Len(run[r].calls)).key = MonthlyKey(run[r].now)
        /\ YearlyKey(run[r].now) \notin DOMAIN store
        /\ Failed(r)

(***************************************************************************)
(* C9.  As claimed: a failed existence check (an error other than not      *)
(* found) on the monthly or yearly key does not make the invocation return *)
(* an error.                                                               *)
(***************************************************************************)
PeriodicCheck(r, i, res) ==
    /\ i \in CallIdx(r)
    /\ CallAt(r, i).op = "head"
    /\ IsPeriodic(CallAt(r, i).key)
    /\ CallAt(r, i).res = res

\* C9 as claimed: the invocation succeeds after a failed existence check.
C9_Claimed_CheckFailureNotFatal ==
    \A r \in Runs :
        (Done(r) /\ \E i \in CallIdx(r) : PeriodicCheck(r, i, "error"))
            => Succeeded(r)

\* C9 as amended.  A failed existence check on the monthly or yearly key is
\* fatal: the invocation returns an error at once and makes no further call.
\* A not-found answer is no error: the put of that key is the next step.
C9_CheckFailureFatal ==
    \A r \in Runs : \A i \in CallIdx(r) :
        /\ PeriodicCheck(r, i, "error") =>
              (Failed(r) /\ i = Len(run[r].calls))
        /\ PeriodicCheck(r, i, "notfound") =>
              IF i = Len(run[r].calls)
              THEN run[r].pc \in {"monthlyPut", "yearlyPut"}
              ELSE /\ CallAt(r, i + 1).op = "put"
                   /\ CallAt(r, i + 1).key = CallAt(r, i).key

\* The monthly check failed after the daily put, before the yearly check.
C9_Witness ==
    \E r \in Runs :
        /\ PeriodicCheck(r, Len(run[r].calls), "error")
        /\ CallAt(r, Len(run[r].calls)).key = MonthlyKey(run[r].now)
        /\ Failed(r)
        /\ YearlyKey(run[r].now) \notin DOMAIN store

(***************************************************************************)
(* C10.  The sweep is best effort and independent per object: a listed key *)
(* whose date does not parse is never deleted, a failed delete is only     *)
(* logged, and in both cases a delete is attempted for every stale listed  *)
(* object and the invocation returns success.                              *)
(***************************************************************************)
AttemptedKeys(r) == {CallAt(r, i).key : i \in DeleteCalls(r)}

\* C10: the sweep attempts every stale listed object, never one that does
\* not parse, and the invocation returns success.
C10_SweepBestEffort ==
    \A r \in Runs :
        SweepFinished(r) =>
            /\ Succeeded(r)
            /\ AttemptedKeys(r) = {k \in ListedKeys(r) : Stale(k, run[r].sweepAt)}
            /\ \A k \in ListedKeys(r) :
                   ~ParseDate(TrimSuffix(Split(k)[Len(Split(k))], StrBackupSuffix)).ok
                       => (k \notin AttemptedKeys(r) /\ k \in DOMAIN store)

\* A delete failed, a delete after it succeeded, and a listed key that does
\* not parse stands before both.
C10_Witness ==
    \E r \in Runs :
        /\ SweepFinished(r)
        /\ \E i, j \in DeleteCalls(r) :
               /\ i < j
               /\ CallAt(r, i).res = "error"
               /\ CallAt(r, j).res = "ok"
               /\ CallAt(r, i).key \in DOMAIN store
        /\ \E k \in ListedKeys(r) :
               /\ Len(Split(k)) = 2
               /\ ~ParseDate(TrimSuffix(Split(k)[2], StrBackupSuffix)).ok

(***************************************************************************)
(* C11.  README.md, How It Works, steps 4 and 5: "If no backup exists for   *)
(* the current month (year), copies the daily backup to monthly/ (yearly/)".*)
(* The handler returns nil at line 459 before the two checks when the dump  *)
(* equals the latest daily object, whatever the month and the year hold.    *)
(***************************************************************************)
\* The period of the invocation's now has its checkpoint in the bucket.
PeriodCovered(r) ==
    /\ MonthlyKey(run[r].now) \in DOMAIN store
    /\ YearlyKey(run[r].now) \in DOMAIN store

\* C11, as claimed: when an invocation has returned success, the month and
\* the year of its now each have a backup object in the bucket.
C11_Claimed_PeriodCoveredAfterSuccess ==
    \A r \in Runs : (Succeeded(r) /\ Dumped(r)) => PeriodCovered(r)

\* What the handler does ensure: the month and the year are covered after
\* every invocation that returned nil at line 493 (the content had changed).
C11_PeriodCoveredAfterWritten ==
    \A r \in Runs : Written(r) => PeriodCovered(r)

(***************************************************************************)
(* C12.  Invocations are not fenced: objectExists (lines 716-729) and the   *)
(* upload that follows it (lines 466-472, 477-483) are two S3 calls, and    *)
(* another invocation may run between them.                                 *)
(***************************************************************************)
\* Invocation r found key absent and then wrote it.
CheckedAbsentThenPut(r, key) ==
    \E i, j \in CallIdx(r) :
        /\ i < j
        /\ CallAt(r, i) = Call("head", key, "notfound")
        /\ CallAt(r, j) = Call("put", key, "ok")

\* C12: a monthly or yearly key is written over an object it already holds
\* only by an invocation that was executing when another invocation wrote
\* that object; invocations that run one at a time never do it.
C12_OverwriteOnlyWhenOverlapping ==
    \A j \in DOMAIN putLog :
        (IsPeriodic(putLog[j].key) /\ putLog[j].existed) =>
            \E i \in 1..(j - 1) :
                /\ putLog[i].key = putLog[j].key
                /\ putLog[i].run # putLog[j].run
                /\ putLog[j].run \in putLog[i].during

\* Two overlapping invocations both found the monthly key absent and both
\* wrote it (and likewise the yearly key): the key was written twice.
C12_Witness ==
    \E r, o \in Runs :
        /\ r # o
        /\ run[r].contentChanged /\ run[o].contentChanged
        /\ MonthlyKey(run[r].now) = MonthlyKey(run[o].now)
        /\ CheckedAbsentThenPut(r, MonthlyKey(run[r].now))
        /\ CheckedAbsentThenPut(o, MonthlyKey(run[r].now))
        /\ CheckedAbsentThenPut(r, YearlyKey(run[r].now))
        /\ CheckedAbsentThenPut(o, YearlyKey(run[r].now))
        /\ \E i, j \in DOMAIN putLog :
               /\ i < j
               /\ putLog[i].key = MonthlyKey(run[r].now)
               /\ putLog[j].key = MonthlyKey(run[r].now)
               /\ putLog[j].existed

(***************************************************************************)
(* C13.  An invocation whose daily upload succeeded and whose monthly or    *)
(* yearly step failed (lines 466-472, 477-483) has left the new dump as the *)
(* latest daily object.  The invocation after it reaches the monthly and    *)
(* yearly steps only if its dump differs from that object (lines 440-460).  *)
(***************************************************************************)
\* The date in the name of a daily key.
KeyDate(k) == ParseDate(TrimSuffix(Split(k)[Len(Split(k))], StrBackupSuffix))

AllCallsSucceeded(r) ==
    \A i \in CallIdx(r) : CallAt(r, i).res \in {"ok", "notfound"}

\* The invocation before r wrote its daily key in the period of r's key
\* (key is r's monthly or yearly key, earlier the one of the instant t), and
\* r found the bucket without an object at key.
LeftUnwritten(r, key, earlier(_)) ==
    /\ key \notin DOMAIN run[r].store0
    /\ \E i \in DOMAIN putLog :
           /\ putLog[i].run + 1 = run[r].seq
           /\ IsDaily(putLog[i].key)
           /\ earlier(KeyDate(putLog[i].key).t) = key

\* A finished invocation r, all of whose S3 calls succeeded, that follows an
\* invocation which left the checkpoint of the period unwritten.
RetryCase(r, key, earlier(_)) ==
    /\ Succeeded(r)
    /\ Dumped(r)
    /\ AllCallsSucceeded(r)
    /\ LeftUnwritten(r, key, earlier)

\* C13, as claimed: the invocation that follows one which left the monthly
\* or yearly key unwritten writes that key, whether or not the dump changed.
C13_Claimed_NextRunRetries ==
    \A r \in Runs :
        /\ RetryCase(r, MonthlyKey(run[r].now), MonthlyKey)
               => MonthlyKey(run[r].now) \in DOMAIN store
        /\ RetryCase(r, YearlyKey(run[r].now), YearlyKey)
               => YearlyKey(run[r].now) \in DOMAIN store

\* What the handler does: the key is written by the following invocation
\* when its dump differs from the latest daily object.
C13_RetriedWhenChanged ==
    \A r \in Runs :
        /\ (RetryCase(r, MonthlyKey(run[r].now), MonthlyKey)
               /\ run[r].contentChanged)
               => CheckedAbsentThenPut(r, MonthlyKey(run[r].now))
        /\ (RetryCase(r, YearlyKey(run[r].now), YearlyKey)
               /\ run[r].contentChanged)
               => CheckedAbsentThenPut(r, YearlyKey(run[r].now))

\* An invocation with a changed dump did retry a checkpoint left unwritten.
C13_RetriedReached ==
    \E r \in Runs :
        /\ RetryCase(r, MonthlyKey(run[r].now), MonthlyKey)
        /\ run[r].contentChanged

(***************************************************************************)
(* C14.  findMostRecentBackup (lines 601-629) compares LastModified only;   *)
(* getObjectChecksum is then called on the key it returned (line 442).      *)
(***************************************************************************)
\* The first call of invocation r, the listing of daily/, succeeded.
Found(r) == Len(run[r].calls) >= 1 /\ CallAt(r, 1) = Call("list", DailyPrefix, "ok")

\* The head and get calls of the dedup step: those on no checkpoint key.
DedupReads(r) ==
    {i \in CallIdx(r) : CallAt(r, i).op \in {"head", "get"}
                        /\ ~IsPeriodic(CallAt(r, i).key)}

\* C14: the key findMostRecentBackup returns is an object under daily/ that
\* no object under daily/ was modified after, it is empty exactly when
\* nothing is under daily/, and the dedup step reads that object only: the
\* decision is the comparison of the dump with its fingerprint.
C14_MostRecentByLastModified ==
    \A r \in Runs :
        Found(r) =>
            /\ (run[r].mostRecent = <<>>) <=>
                   ({k \in DOMAIN run[r].store0 : IsDaily(k)} = {})
            /\ run[r].mostRecent # <<>> =>
                   run[r].mostRecent \in LatestDaily(run[r].store0)
            /\ \A i \in DedupReads(r) : CallAt(r, i).key = run[r].mostRecent
            /\ (Done(r) /\ run[r].mostRecent # <<>> /\ ~DedupFault(r)) =>
                   (run[r].contentChanged <=>
                        Fingerprint(run[r].store0[run[r].mostRecent])
                            # run[r].newChecksum)

\* The object chosen has an older date in its key than another daily object
\* that was modified before it, and the dump, which differs from the chosen
\* object, equals yet another daily object: it counts as changed.
C14_Witness ==
    \E r \in Runs :
        /\ Found(r)
        /\ Done(r)
        /\ ~DedupFault(r)
        /\ run[r].contentChanged
        /\ run[r].mostRecent # <<>>
        /\ KeyDate(run[r].mostRecent).ok
        /\ \E o \in DOMAIN run[r].store0 :
               /\ IsDaily(o)
               /\ KeyDate(o).ok
               /\ KeyDate(o).t > KeyDate(run[r].mostRecent).t
               /\ run[r].store0[o].lm < run[r].store0[run[r].mostRecent].lm
        /\ \E o \in DOMAIN run[r].store0 :
               /\ IsDaily(o)
               /\ Fingerprint(run[r].store0[o]) = run[r].newChecksum

(***************************************************************************)
(* C15.  getObjectChecksum (lines 636-670): the sha256 metadata if the      *)
(* object has it, the digest of the body of GetObject otherwise.            *)
(***************************************************************************)
CarriesDigest(o) == \E p \in o.meta : p[1] = StrSha256

\* The object as the second copy of the handler would have uploaded it.
WithDigest(o) ==
    [o EXCEPT !.meta = {<<StrSha256, calculateChecksum(o.payload)>>}]

\* HeadObject on the most recent daily object of invocation r succeeded.
HeadAnswered(r) ==
    /\ Found(r)
    /\ Len(run[r].calls) >= 2
    /\ CallAt(r, 2) = Call("head", run[r].mostRecent, "ok")

GetCalls(r) == {i \in CallIdx(r) : CallAt(r, i).op = "get"}

\* The invocation failed at an upload or at an existence check of a
\* checkpoint key, never at the dedup step.
FailedAfterDedup(r) ==
    \E i \in CallIdx(r) :
        /\ CallAt(r, i).res = "error"
        /\ \/ CallAt(r, i).op = "put"
           \/ CallAt(r, i).op = "head" /\ IsPeriodic(CallAt(r, i).key)

\* C15: with the metadata the digest is read from it and the payload is not
\* fetched; without it the payload is fetched once and the decision is the
\* one the metadata path takes on the same object carrying the digest of its
\* payload; the invocation does not fail at this step.
C15_ChecksumOfObject ==
    \A r \in Runs :
        HeadAnswered(r) =>
            LET o == run[r].store0[run[r].mostRecent]
                decided == run[r].pc \notin {"head", "get"}
            IN  /\ CarriesDigest(o) =>
                       /\ GetCalls(r) = {}
                       /\ decided
                       /\ run[r].contentChanged =
                              ContentChanged(run[r].mostRecent, FALSE,
                                             Sha256Of(o.meta),
                                             run[r].newChecksum)
                /\ ~CarriesDigest(o) =>
                       /\ decided =>
                              /\ GetCalls(r) = {3}
                              /\ CallAt(r, 3).key = run[r].mostRecent
                       /\ (decided /\ CallAt(r, 3).res = "ok") =>
                              run[r].contentChanged =
                                  ContentChanged(run[r].mostRecent, FALSE,
                                                 Sha256Of(WithDigest(o).meta),
                                                 run[r].newChecksum)
                       /\ Failed(r) => FailedAfterDedup(r)

\* An object without the metadata was fetched, its digest equalled the
\* dump's and the invocation was skipped.
C15_Witness ==
    \E r \in Runs :
        /\ HeadAnswered(r)
        /\ ~CarriesDigest(run[r].store0[run[r].mostRecent])
        /\ Len(run[r].calls) = 3
        /\ CallAt(r, 3) = Call("get", run[r].mostRecent, "ok")
        /\ Skipped(r)

(***************************************************************************)
(* C16.  DeleteObject is called at line 761 only, in the loop of            *)
(* cleanupOldDailyBackups over the listing of "daily/".                     *)
(***************************************************************************)
\* Every delete call is on a key of the sweep's listing of daily/ that has
\* exactly one "/" and a date in its name.
DeletesAreDatedDailyKeys ==
    \A r \in Runs : \A i \in DeleteCalls(r) :
        LET key == CallAt(r, i).key
        IN  /\ key \in ListedKeys(r)
            /\ IsDaily(key)
            /\ Len(Split(key)) = 2
            /\ ParseDate(TrimSuffix(Split(key)[2], StrBackupSuffix)).ok

\* A step leaves every monthly/ and yearly/ object in the bucket as it is.
CheckpointsKept ==
    \A k \in DOMAIN store :
        IsPeriodic(k) => (k \in DOMAIN store' /\ store'[k] = store[k])

\* C16: no invocation deletes outside the dated keys of daily/, and every
\* monthly/ and yearly/ object stays in the bucket, unchanged, from the step
\* that wrote it on.
C16_CheckpointsNeverTouched ==
    []DeletesAreDatedDailyKeys /\ [][CheckpointsKept]_vars

\* A sweep deleted a daily object while the bucket held a checkpoint older
\* than the cutoff and a checkpoint this invocation wrote; both are there.
C16_Witness ==
    \E r \in Runs :
        /\ SweepFinished(r)
        /\ \E i \in DeleteCalls(r) : CallAt(r, i).res = "ok"
        /\ \E k \in DOMAIN run[r].store0 :
               /\ IsPeriodic(k)
               /\ run[r].store0[k].lm < run[r].cutoff
               /\ k \in DOMAIN store
               /\ store[k] = run[r].store0[k]
        /\ \E i \in PutCalls(r) :
               /\ IsPeriodic(CallAt(r, i).key)
               /\ CallAt(r, i).res = "ok"
               /\ CallAt(r, i).key \in DOMAIN store
               /\ store[CallAt(r, i).key].payload = run[r].data

====
